---- MODULE Spec2Model ----
(***************************************************************************)
(* Model of the NPC builder of campman                                     *)
(* (src/campman/src/gen_npc_tab/npc_builder): the blueprint model, the     *)
(* dependency graph built from it, and the builder that resolves one field *)
(* at a time.                                                              *)
(***************************************************************************)
EXTENDS Integers, Sequences, FiniteSets, TLC

VARIABLES
    blueprints,       \* NpcBlueprint.blueprints : BpMap
    dependency_graph, \* NpcBlueprint.dependency_graph, or the construction error
    constructed_npc,  \* NpcBuilder.constructed_npc : StringMap
    result,           \* the last call made on the builder and what it returned
    sessions,         \* the builders of concurrent sessions over one NpcBlueprint
    state,            \* GenNpcTab.state : State
    combat            \* the CombatState of the combat tracker

vars == <<blueprints, dependency_graph, constructed_npc, result, sessions, state, combat>>

(***************************************************************************)
(* Bounds of the model.                                                    *)
(***************************************************************************)
\* longest value list a caller submits
MaxValues == 3

\* longest value list a caller submits when two sessions run side by side
MaxSessionValues == 1

\* longest value list of the submits a caller makes besides the accepted ones
MaxRetryValues == 1

\* the round after which no further turn of a combat is followed
MaxRound == 3

\* the most modifiers that are put on the participants of a combat
MaxModifiers == 1

\* the most participants a combat is given
MaxParticipants == 3

\* the hit points above which no participant is raised
MaxHp == 1

(***************************************************************************)
(* Generic helpers.                                                        *)
(***************************************************************************)
Range(s) == {s[i] : i \in 1..Len(s)}

Contains(s, v) == \E i \in 1..Len(s) : s[i] = v

\* every order in which the elements of S can be enumerated
Perms(S) == {s \in [1..Cardinality(S) -> S] : \A i, j \in 1..Cardinality(S) : s[i] = s[j] => i = j}

SeqsUpTo(S, n) == UNION {[1..k -> S] : k \in 0..n}

\* the StringMap with no key
EmptyMap == [k \in {} |-> <<>>]

\* HashMap::insert
MapInsert(m, k, v) == [x \in DOMAIN m \cup {k} |-> IF x = k THEN v ELSE m[x]]

(***************************************************************************)
(* Blueprint model.                                                        *)
(***************************************************************************)
FilterNone == [kind |-> "None"]

FieldValue(tf, tv) == [kind |-> "FieldValue", target_field |-> tf, target_value |-> tv]

ChoiceSource(opts, f) == [options |-> opts, filter |-> f]

FieldBlueprint(n, srcs) == [n_selections |-> n, sources |-> srcs]

\* FieldBlueprint::simple: one source, one selection
Simple(cs) == FieldBlueprint(1, <<cs>>)

\* ChoiceSource::from_strings: an unconditional source
FromStrings(vals) == ChoiceSource(vals, FilterNone)

(***************************************************************************)
(* Blueprint sets the builder is run on.  Each is a BpMap as              *)
(* NpcBlueprint::parse produces it from a toml table.                      *)
(***************************************************************************)
\* Race is unconditional, the weapon pools are gated on the race
BpRaceWeapon ==
    ("Race" :> Simple(FromStrings(<<"Elf", "Orc">>))) @@
    ("Weapon" :> FieldBlueprint(1, <<ChoiceSource(<<"Axe">>, FieldValue("Race", "Orc")),
                                     ChoiceSource(<<"Bow">>, FieldValue("Race", "Elf"))>>))

\* A has an unconditional pool and a pool gated on B
BpFilter ==
    ("A" :> FieldBlueprint(1, <<FromStrings(<<"x", "y">>),
                                ChoiceSource(<<"z">>, FieldValue("B", "b1"))>>)) @@
    ("B" :> Simple(FromStrings(<<"b1", "b2">>)))

\* two fields that take two values each, the second with a pool gated on the first
BpCount ==
    ("Skills" :> FieldBlueprint(2, <<FromStrings(<<"x", "y">>)>>)) @@
    ("Perk" :> FieldBlueprint(2, <<ChoiceSource(<<"z">>, FieldValue("Skills", "x")),
                                   FromStrings(<<"x", "y">>)>>))

\* two roots, a field gated on both of them, and a field gated on that one
BpChain ==
    ("R1" :> Simple(FromStrings(<<"x">>))) @@
    ("R2" :> Simple(FromStrings(<<"y">>))) @@
    ("D" :> FieldBlueprint(1, <<ChoiceSource(<<"x">>, FieldValue("R1", "x")),
                                ChoiceSource(<<"y">>, FieldValue("R2", "y"))>>)) @@
    ("E" :> FieldBlueprint(0, <<ChoiceSource(<<"z">>, FieldValue("D", "x"))>>))

\* one root, two fields gated on it, and a field gated on those two
BpDiamond ==
    ("R" :> Simple(FromStrings(<<"x", "y">>))) @@
    ("D" :> Simple(ChoiceSource(<<"x", "x">>, FieldValue("R", "x")))) @@
    ("E" :> FieldBlueprint(1, <<ChoiceSource(<<"y">>, FieldValue("R", "y")), FromStrings(<<"x">>)>>)) @@
    ("F" :> FieldBlueprint(1, <<ChoiceSource(<<"x">>, FieldValue("D", "x")),
                                ChoiceSource(<<"y">>, FieldValue("E", "x"))>>))

\* a root and two fields gated on each other
BpCycle ==
    ("R" :> Simple(FromStrings(<<"x">>))) @@
    ("A" :> Simple(ChoiceSource(<<"x">>, FieldValue("B", "y")))) @@
    ("B" :> Simple(ChoiceSource(<<"y">>, FieldValue("A", "x"))))

\* a root and a field gated on a field that the blueprint set does not define
BpGhost ==
    ("R" :> Simple(FromStrings(<<"x">>))) @@
    ("X" :> FieldBlueprint(1, <<ChoiceSource(<<"y">>, FieldValue("Ghost", "g")), FromStrings(<<"x">>)>>))

\* every field is gated on another one: there is no root
BpNoRoot ==
    ("A" :> Simple(ChoiceSource(<<"x">>, FieldValue("B", "y")))) @@
    ("B" :> Simple(ChoiceSource(<<"y">>, FieldValue("A", "x"))))

\* a field that takes two values and has a single option, and a field gated on it
BpScarce ==
    ("Twin" :> FieldBlueprint(2, <<FromStrings(<<"x">>)>>)) @@
    ("Heir" :> Simple(ChoiceSource(<<"y">>, FieldValue("Twin", "x"))))

\* two roots and a field gated on one of them only
BpSide ==
    ("P" :> Simple(FromStrings(<<"x">>))) @@
    ("Q" :> Simple(FromStrings(<<"y">>))) @@
    ("S" :> Simple(ChoiceSource(<<"z">>, FieldValue("P", "x"))))

\* one field with more options than the tab displays at once
BpWide == "Name" :> Simple(FromStrings(<<"a", "b", "c", "d">>))

\* a toml table without any field
BpEmpty == [f \in {} |-> FieldBlueprint(1, <<>>)]

BlueprintSets ==
    {BpRaceWeapon, BpFilter, BpCount, BpChain, BpDiamond, BpCycle, BpGhost, BpNoRoot,
     BpScarce, BpSide, BpWide, BpEmpty}

(***************************************************************************)
(* Dependency graph (dependency_graph.rs).                                 *)
(***************************************************************************)
\* the target fields of the filtered sources of a field, in source order
RECURSIVE field_deps(_)
field_deps(srcs) ==
    IF srcs = <<>> THEN <<>>
    ELSE IF Head(srcs).filter.kind = "None" THEN field_deps(Tail(srcs))
    ELSE <<Head(srcs).filter.target_field>> \o field_deps(Tail(srcs))

HasDeps(bps, f) == Len(field_deps(bps[f].sources)) # 0

\* variant: the test `field_deps.len() == 0` is lost, every field is pushed as a root
from_blueprints_all_roots(bps, order, key_order) ==
    [ok |-> Len(order) > 0,
     roots |-> order,
     dependencies |-> UNION {{<<f, d>> : d \in Range(field_deps(bps[f].sources))} : f \in DOMAIN bps},
     left_keys |-> SelectSeq(key_order, LAMBDA f : HasDeps(bps, f))]

\* variant: a field is a root as soon as one of its sources is unconditional
from_blueprints_some_none(bps, order, key_order) ==
    LET roots == SelectSeq(order, LAMBDA f : \E src \in Range(bps[f].sources) : src.filter.kind = "None")
        dependencies == UNION {{<<f, d>> : d \in Range(field_deps(bps[f].sources))} : f \in DOMAIN bps}
    IN  IF Len(roots) > 0
        THEN [ok |-> TRUE,
              roots |-> roots,
              dependencies |-> dependencies,
              left_keys |-> SelectSeq(key_order, LAMBDA f : HasDeps(bps, f))]
        ELSE [ok |-> FALSE, error |-> "NoRootFields"]

\* variant: the `ensure!(roots.len() > 0, ..)` is lost
from_blueprints_unchecked(bps, order, key_order) ==
    [ok |-> TRUE,
     roots |-> SelectSeq(order, LAMBDA f : ~HasDeps(bps, f)),
     dependencies |-> UNION {{<<f, d>> : d \in Range(field_deps(bps[f].sources))} : f \in DOMAIN bps},
     left_keys |-> SelectSeq(key_order, LAMBDA f : HasDeps(bps, f))]

\* order: the order in which the HashMap bps is iterated;
\* key_order: the order in which ManyToMany enumerates its left keys
from_blueprints(bps, order, key_order) ==
    LET roots == SelectSeq(order, LAMBDA f : ~HasDeps(bps, f))
        dependencies == UNION {{<<f, d>> : d \in Range(field_deps(bps[f].sources))} : f \in DOMAIN bps}
    IN  IF Len(roots) > 0
        THEN [ok |-> TRUE,
              roots |-> roots,
              dependencies |-> dependencies,
              left_keys |-> SelectSeq(key_order, LAMBDA f : HasDeps(bps, f))]
        ELSE [ok |-> FALSE, error |-> "NoRootFields"]

\* ManyToMany::get_left(field).unwrap_or(vec![])
get_left(graph, field) == {p[2] : p \in {q \in graph.dependencies : q[1] = field}}

\* variant: get_left for get_right, the fields that `dependant` depends on
get_depending_fields_left(graph, dependant) == get_left(graph, dependant)

\* ManyToMany::get_right(dependant).unwrap_or(vec![])
get_depending_fields(graph, dependant) == {p[1] : p \in {q \in graph.dependencies : q[2] = dependant}}

\* variant: a dependency counts only once it has a value
get_determined_fields_valued(graph, npc) ==
    SelectSeq(graph.left_keys,
              LAMBDA field : \A f \in get_left(graph, field) : f \in DOMAIN npc /\ npc[f] # <<>>)

\* variant: the test that the dependencies are keys of npc is lost
get_determined_fields_no_deps(graph, npc) == graph.left_keys

get_determined_fields(graph, npc) ==
    SelectSeq(graph.left_keys, LAMBDA field : \A f \in get_left(graph, field) : f \in DOMAIN npc)

\* variant: the determined fields are chained before the roots
get_available_unset_fields_determined_first(graph, npc) ==
    SelectSeq(get_determined_fields(graph, npc) \o graph.roots, LAMBDA f : f \notin DOMAIN npc)

\* variant: the chain with the determined fields is lost
get_available_unset_fields_roots_only(graph, npc) ==
    SelectSeq(graph.roots, LAMBDA f : f \notin DOMAIN npc)

\* variant: the filter on `!npc.contains_key(f)` is lost
get_available_unset_fields_no_filter(graph, npc) ==
    graph.roots \o get_determined_fields(graph, npc)

get_available_unset_fields(graph, npc) ==
    SelectSeq(graph.roots \o get_determined_fields(graph, npc), LAMBDA f : f \notin DOMAIN npc)

(***************************************************************************)
(* Builder (npc_builder/mod.rs).                                           *)
(***************************************************************************)
\* the guard `self.constructed_npc[target_field]` indexes a HashMap: it panics
\* when the target field has no entry
SourcePanics(src, npc) ==
    src.filter.kind = "FieldValue" /\ src.filter.target_field \notin DOMAIN npc

\* variant: the guard tests that the target field is set, not which value it has
SourceActive_any_value(src, npc) ==
    \/ src.filter.kind = "None"
    \/ /\ src.filter.kind = "FieldValue"
       /\ src.filter.target_field \in DOMAIN npc

\* the match of the filter_map closure: does the source contribute its options
SourceActive(src, npc) ==
    \/ src.filter.kind = "None"
    \/ /\ src.filter.kind = "FieldValue"
       /\ Contains(npc[src.filter.target_field], src.filter.target_value)

\* variant: every source contributes, whatever its filter
RECURSIVE active_options_unfiltered(_, _)
active_options_unfiltered(srcs, npc) ==
    IF srcs = <<>> THEN <<>>
    ELSE Head(srcs).options \o active_options_unfiltered(Tail(srcs), npc)

\* filter_map(..).flatten().collect(): the options of the active sources, in order
RECURSIVE active_options(_, _)
active_options(srcs, npc) ==
    IF srcs = <<>> THEN <<>>
    ELSE (IF SourceActive(Head(srcs), npc) THEN Head(srcs).options ELSE <<>>)
         \o active_options(Tail(srcs), npc)

\* `&fields[0]`: the field current_field_infos works on
current_field(graph, npc) == get_available_unset_fields(graph, npc)[1]

current_field_infos(bps, graph, npc) ==
    LET fields == get_available_unset_fields(graph, npc)
    IN  IF Len(fields) > 0
        THEN LET field == current_field(graph, npc)
                 bp == bps[field]
             IN  IF \E src \in Range(bp.sources) : SourcePanics(src, npc)
                 THEN [tag |-> "Panic"]
                 ELSE [tag |-> "Some",
                       field |-> field,
                       opts |-> active_options(bp.sources, npc),
                       n |-> bp.n_selections]
        ELSE [tag |-> "None"]

\* variant: `any` for `all`
npc_completed_any(bps, npc) == \E k \in DOMAIN bps : k \in DOMAIN npc

\* variant: the last field is not waited for
npc_completed_early(bps, npc) ==
    Cardinality({k \in DOMAIN bps : k \notin DOMAIN npc}) <= 1

npc_completed(bps, npc) == \A k \in DOMAIN bps : k \in DOMAIN npc

\* variant: `last()` for `next()`
FirstInvalid_last(values, opts) ==
    values[CHOOSE i \in 1..Len(values) :
               /\ ~Contains(opts, values[i])
               /\ \A j \in (i + 1)..Len(values) : Contains(opts, values[j])]

\* values.iter().filter(|v| !opts.contains(v)).next().unwrap()
FirstInvalid(values, opts) ==
    values[CHOOSE i \in 1..Len(values) :
               /\ ~Contains(opts, values[i])
               /\ \A j \in 1..(i - 1) : Contains(opts, values[j])]

\* variant: the values are inserted before they are validated
set_current_field_val_insert_first(bps, graph, npc, values) ==
    LET infos == current_field_infos(bps, graph, npc)
    IN  CASE infos.tag = "Panic" -> [ret |-> [tag |-> "Panic"], npc |-> npc]
          [] infos.tag = "None" -> [ret |-> [tag |-> "NPCCompleteError"], npc |-> npc]
          [] infos.tag = "Some" ->
                LET inserted == MapInsert(npc, infos.field, values)
                IN  IF Len(values) # infos.n
                    THEN [ret |-> [tag |-> "WrongN", got |-> Len(values), expected |-> infos.n],
                          npc |-> inserted]
                    ELSE IF \A i \in 1..Len(values) : Contains(infos.opts, values[i])
                    THEN IF npc_completed(bps, inserted)
                         THEN [ret |-> [tag |-> "OkSome", npc |-> inserted], npc |-> inserted]
                         ELSE [ret |-> [tag |-> "OkNone"], npc |-> inserted]
                    ELSE [ret |-> [tag |-> "InvalidValue",
                                   value |-> FirstInvalid(values, infos.opts),
                                   allowed |-> infos.opts],
                          npc |-> inserted]

\* variant: the values are validated before they are counted
set_current_field_val_values_first(bps, graph, npc, values) ==
    LET infos == current_field_infos(bps, graph, npc)
    IN  CASE infos.tag = "Panic" -> [ret |-> [tag |-> "Panic"], npc |-> npc]
          [] infos.tag = "None" -> [ret |-> [tag |-> "NPCCompleteError"], npc |-> npc]
          [] infos.tag = "Some" ->
                IF \E i \in 1..Len(values) : ~Contains(infos.opts, values[i])
                THEN [ret |-> [tag |-> "InvalidValue",
                               value |-> FirstInvalid(values, infos.opts),
                               allowed |-> infos.opts],
                      npc |-> npc]
                ELSE IF Len(values) # infos.n
                THEN [ret |-> [tag |-> "WrongN", got |-> Len(values), expected |-> infos.n],
                      npc |-> npc]
                ELSE LET inserted == MapInsert(npc, infos.field, values)
                     IN  IF npc_completed(bps, inserted)
                         THEN [ret |-> [tag |-> "OkSome", npc |-> inserted], npc |-> inserted]
                         ELSE [ret |-> [tag |-> "OkNone"], npc |-> inserted]

\* variant: without a current field the record is handed out again
set_current_field_val_none_ok(bps, graph, npc, values) ==
    LET infos == current_field_infos(bps, graph, npc)
    IN  CASE infos.tag = "Panic" -> [ret |-> [tag |-> "Panic"], npc |-> npc]
          [] infos.tag = "None" -> [ret |-> [tag |-> "OkSome", npc |-> npc], npc |-> npc]
          [] infos.tag = "Some" ->
                IF Len(values) # infos.n
                THEN [ret |-> [tag |-> "WrongN", got |-> Len(values), expected |-> infos.n],
                      npc |-> npc]
                ELSE IF \A i \in 1..Len(values) : Contains(infos.opts, values[i])
                THEN LET inserted == MapInsert(npc, infos.field, values)
                     IN  IF npc_completed(bps, inserted)
                         THEN [ret |-> [tag |-> "OkSome", npc |-> inserted], npc |-> inserted]
                         ELSE [ret |-> [tag |-> "OkNone"], npc |-> inserted]
                ELSE [ret |-> [tag |-> "InvalidValue",
                               value |-> FirstInvalid(values, infos.opts),
                               allowed |-> infos.opts],
                      npc |-> npc]

\* variant: `any` for `all` in the test of the values
set_current_field_val_any(bps, graph, npc, values) ==
    LET infos == current_field_infos(bps, graph, npc)
    IN  CASE infos.tag = "Panic" -> [ret |-> [tag |-> "Panic"], npc |-> npc]
          [] infos.tag = "None" -> [ret |-> [tag |-> "NPCCompleteError"], npc |-> npc]
          [] infos.tag = "Some" ->
                IF Len(values) # infos.n
                THEN [ret |-> [tag |-> "WrongN", got |-> Len(values), expected |-> infos.n],
                      npc |-> npc]
                ELSE IF \E i \in 1..Len(values) : Contains(infos.opts, values[i])
                THEN LET inserted == MapInsert(npc, infos.field, values)
                     IN  IF npc_completed(bps, inserted)
                         THEN [ret |-> [tag |-> "OkSome", npc |-> inserted], npc |-> inserted]
                         ELSE [ret |-> [tag |-> "OkNone"], npc |-> inserted]
                ELSE IF \E i \in 1..Len(values) : ~Contains(infos.opts, values[i])
                THEN [ret |-> [tag |-> "InvalidValue",
                               value |-> FirstInvalid(values, infos.opts),
                               allowed |-> infos.opts],
                      npc |-> npc]
                ELSE [ret |-> [tag |-> "Panic"], npc |-> npc]

\* the value returned and the constructed_npc left behind
set_current_field_val(bps, graph, npc, values) ==
    LET infos == current_field_infos(bps, graph, npc)
    IN  CASE infos.tag = "Panic" -> [ret |-> [tag |-> "Panic"], npc |-> npc]
          [] infos.tag = "None" -> [ret |-> [tag |-> "NPCCompleteError"], npc |-> npc]
          [] infos.tag = "Some" ->
                IF Len(values) # infos.n
                THEN [ret |-> [tag |-> "WrongN", got |-> Len(values), expected |-> infos.n],
                      npc |-> npc]
                ELSE IF \A i \in 1..Len(values) : Contains(infos.opts, values[i])
                THEN LET inserted == MapInsert(npc, infos.field, values)
                     IN  IF npc_completed(bps, inserted)
                         THEN [ret |-> [tag |-> "OkSome", npc |-> inserted], npc |-> inserted]
                         ELSE [ret |-> [tag |-> "OkNone"], npc |-> inserted]
                ELSE [ret |-> [tag |-> "InvalidValue",
                               value |-> FirstInvalid(values, infos.opts),
                               allowed |-> infos.opts],
                      npc |-> npc]

\* the option strings of a field, whatever the filters
FieldOptions(bps, f) == UNION {Range(src.options) : src \in Range(bps[f].sources)}

\* a string that is an option of no field
Foreign == "q"

\* the values a caller submits: the options of the field the builder is at,
\* active or not, and a string that is no option of it
InputValues(bps, graph, npc) ==
    IF Len(get_available_unset_fields(graph, npc)) > 0
    THEN FieldOptions(bps, current_field(graph, npc)) \cup {Foreign}
    ELSE {Foreign}

(***************************************************************************)
(* The state machine.                                                      *)
(***************************************************************************)
\* no tab exists
NoTab == [tag |-> "NoTab"]

\* no combat is tracked
NoCombat == [tag |-> "NoCombat"]

\* no other builder exists
NoSessions == [s \in {} |-> EmptyMap]

\* NpcBlueprint::parse of a blueprint set followed by NpcBuilder::new
Init ==
    \E bps \in BlueprintSets : \E order \in Perms(DOMAIN bps) : \E key_order \in Perms(DOMAIN bps) :
        /\ blueprints = bps
        /\ dependency_graph = from_blueprints(bps, order, key_order)
        /\ constructed_npc = EmptyMap
        /\ result = IF dependency_graph.ok
                    THEN [op |-> "new", values |-> <<>>, ret |-> [tag |-> "Builder"]]
                    ELSE [op |-> "parse", values |-> <<>>, ret |-> [tag |-> "Err"]]
        /\ sessions = NoSessions
        /\ state = NoTab
        /\ combat = NoCombat

\* a builder exists and the process has not panicked
Running == dependency_graph.ok /\ result.ret.tag # "Panic"

\* variant: the call marks the field it reports as visited
CurrentFieldInfos_marking ==
    /\ Running
    /\ LET infos == current_field_infos(blueprints, dependency_graph, constructed_npc)
       IN  /\ result' = [op |-> "current_field_infos", values |-> <<>>, ret |-> infos]
           /\ constructed_npc' = IF infos.tag = "Some"
                                  THEN MapInsert(constructed_npc, infos.field, <<>>)
                                  ELSE constructed_npc
    /\ UNCHANGED <<blueprints, dependency_graph, sessions, state, combat>>

CurrentFieldInfos ==
    /\ Running
    /\ result' = [op |-> "current_field_infos",
                  values |-> <<>>,
                  ret |-> current_field_infos(blueprints, dependency_graph, constructed_npc)]
    /\ UNCHANGED <<blueprints, dependency_graph, constructed_npc, sessions, state, combat>>

SetCurrentFieldVal ==
    /\ Running
    /\ \E values \in SeqsUpTo(InputValues(blueprints, dependency_graph, constructed_npc), MaxValues) :
          LET out == set_current_field_val(blueprints, dependency_graph, constructed_npc, values)
          IN  /\ constructed_npc' = out.npc
              /\ result' = [op |-> "set_current_field_val", values |-> values, ret |-> out.ret]
    /\ UNCHANGED <<blueprints, dependency_graph, sessions, state, combat>>

NpcCompleted ==
    /\ Running
    /\ result' = [op |-> "npc_completed",
                  values |-> <<>>,
                  ret |-> [tag |-> "Bool", value |-> npc_completed(blueprints, constructed_npc)]]
    /\ UNCHANGED <<blueprints, dependency_graph, constructed_npc, sessions, state, combat>>

Next == CurrentFieldInfos \/ SetCurrentFieldVal \/ NpcCompleted

Spec == Init /\ [][Next]_vars

(***************************************************************************)
(* The builder with a caller that does not give up: as long as some        *)
(* selection would be accepted, the caller eventually submits one.         *)
(***************************************************************************)
\* a submit of as many of the reported options as the field takes
AcceptedSubmit ==
    /\ Running
    /\ current_field_infos(blueprints, dependency_graph, constructed_npc).tag = "Some"
    /\ \E values \in [1..current_field_infos(blueprints, dependency_graph, constructed_npc).n
                         -> Range(current_field_infos(blueprints, dependency_graph,
                                                      constructed_npc).opts)] :
          LET out == set_current_field_val(blueprints, dependency_graph, constructed_npc, values)
          IN  /\ constructed_npc' = out.npc
              /\ result' = [op |-> "set_current_field_val", values |-> values, ret |-> out.ret]
    /\ UNCHANGED <<blueprints, dependency_graph, sessions, state, combat>>

\* any other submit the caller makes in between
RetrySubmit ==
    /\ Running
    /\ \E values \in SeqsUpTo(InputValues(blueprints, dependency_graph, constructed_npc),
                               MaxRetryValues) :
          LET out == set_current_field_val(blueprints, dependency_graph, constructed_npc, values)
          IN  /\ constructed_npc' = out.npc
              /\ result' = [op |-> "set_current_field_val", values |-> values, ret |-> out.ret]
    /\ UNCHANGED <<blueprints, dependency_graph, sessions, state, combat>>

FairNext == CurrentFieldInfos \/ NpcCompleted \/ RetrySubmit \/ AcceptedSubmit

SpecFair == Init /\ [][FairNext]_vars /\ WF_vars(AcceptedSubmit)

(***************************************************************************)
(* The builder together with a caller that queries the graph for the       *)
(* fields that depend on a field.                                          *)
(***************************************************************************)
\* the names a query is made with: the fields, the filter targets, a foreign name
QueryNames(bps) ==
    DOMAIN bps \cup UNION {Range(field_deps(bps[f].sources)) : f \in DOMAIN bps} \cup {Foreign}

GetDependingFields(dependant) ==
    /\ Running
    /\ result' = [op |-> "get_depending_fields",
                  values |-> <<dependant>>,
                  ret |-> [tag |-> "Fields",
                           fields |-> get_depending_fields(dependency_graph, dependant)]]
    /\ UNCHANGED <<blueprints, dependency_graph, constructed_npc, sessions, state, combat>>

GraphNext ==
    \/ Next
    \/ \E dependant \in QueryNames(blueprints) : GetDependingFields(dependant)

SpecGraph == Init /\ [][GraphNext]_vars

(***************************************************************************)
(* Two sessions, each with a builder of its own, created from one          *)
(* NpcBlueprint: the blueprint map is cloned and the graph is shared       *)
(* through its Rc, neither is written after construction.                  *)
(***************************************************************************)
Sessions == {"a", "b"}

\* NpcBuilder::new: a builder with an empty map of its own
NewBuilder ==
    [constructed_npc |-> EmptyMap,
     result |-> [op |-> "new", values |-> <<>>, ret |-> [tag |-> "Builder"]]]

\* variant: the map written is one that all builders share
self_update_shared(ss, id, b) ==
    [s \in DOMAIN ss |-> [constructed_npc |-> b.constructed_npc,
                          result |-> IF s = id THEN b.result ELSE ss[s].result]]

\* `&self` / `&mut self`: a call reads and writes the builder it is made on
self_update(ss, id, b) == [ss EXCEPT ![id] = b]

\* the builder after current_field_infos
after_current_field_infos(bps, graph, b) ==
    [constructed_npc |-> b.constructed_npc,
     result |-> [op |-> "current_field_infos",
                 values |-> <<>>,
                 ret |-> current_field_infos(bps, graph, b.constructed_npc)]]

\* the builder after set_current_field_val(values)
after_set_current_field_val(bps, graph, b, values) ==
    LET out == set_current_field_val(bps, graph, b.constructed_npc, values)
    IN  [constructed_npc |-> out.npc,
         result |-> [op |-> "set_current_field_val", values |-> values, ret |-> out.ret]]

SessionsInit ==
    \E bps \in BlueprintSets : \E order \in Perms(DOMAIN bps) : \E key_order \in Perms(DOMAIN bps) :
        /\ blueprints = bps
        /\ dependency_graph = from_blueprints(bps, order, key_order)
        /\ dependency_graph.ok
        /\ constructed_npc = EmptyMap
        /\ result = [op |-> "new", values |-> <<>>, ret |-> [tag |-> "Builder"]]
        /\ sessions = [s \in Sessions |-> NewBuilder]
        /\ state = NoTab
        /\ combat = NoCombat

\* no builder has panicked
SessionsRunning == \A s \in Sessions : sessions[s].result.ret.tag # "Panic"

SessionCurrentFieldInfos(s) ==
    /\ SessionsRunning
    /\ sessions' = self_update(sessions, s,
                                after_current_field_infos(blueprints, dependency_graph, sessions[s]))
    /\ UNCHANGED <<blueprints, dependency_graph, constructed_npc, result, state, combat>>

SessionSetCurrentFieldVal(s) ==
    /\ SessionsRunning
    /\ \E values \in SeqsUpTo(InputValues(blueprints, dependency_graph, sessions[s].constructed_npc),
                               MaxSessionValues) :
          sessions' = self_update(sessions, s,
                                  after_set_current_field_val(blueprints, dependency_graph,
                                                              sessions[s], values))
    /\ UNCHANGED <<blueprints, dependency_graph, constructed_npc, result, state, combat>>

SessionsNext ==
    \E s \in Sessions : SessionCurrentFieldInfos(s) \/ SessionSetCurrentFieldVal(s)

SpecSessions == SessionsInit /\ [][SessionsNext]_vars

(***************************************************************************)
(* The NPC tab (gen_npc_tab/mod.rs): the state of GenNpcTab and its        *)
(* update handler.  blueprints and dependency_graph are the NpcBlueprint   *)
(* that npc_gen.toml parses to; the builder of the tab lives in `state`.   *)
(***************************************************************************)
\* the name under which npc_gen.toml lists the blueprint set
NpcType == "npc"

\* State::Error(msg)
Error(msg) == [tag |-> "Error", msg |-> msg]

\* the placeholder that with_state! swaps in
Placeholder == Error("Switching States")

\* a panic ends the process
TabPanic == [tag |-> "Panic"]

\* an outcome of inner_update: the state left behind and the Err returned, if any
Outcome(st, err) == [state |-> st, err |-> err]

\* the Blueprints map, or the error of load_blueprints_from_table
GenNpcTab_new(bps, graph) ==
    {IF graph.ok
     THEN [tag |-> "Initiated",
           bps |-> (NpcType :> [blueprints |-> bps, dependency_graph |-> graph])]
     ELSE Error(graph.error),
     Error("Could not load npc_gen.toml")}

\* what reading and parsing npc_gen.toml can give: the file holds any of the
\* blueprint sets, and every parse draws the HashMap orders anew
ConfigReads ==
    UNION {UNION {{[blueprints |-> bps,
                    dependency_graph |-> from_blueprints(bps, order, key_order)] :
                      key_order \in Perms(DOMAIN bps)} :
                   order \in Perms(DOMAIN bps)} :
              bps \in BlueprintSets}

Min(a, b) == IF a < b THEN a ELSE b

\* the keys of displayed_options that are selected
Selected(d) == {k \in DOMAIN d : d[k]}

\* choose_multiple(rng, n * 3) of the options, collected into a HashMap with `false`
roll_options(xs, n) ==
    {[o \in {xs[i] : i \in S} |-> FALSE] :
        S \in {T \in SUBSET (1..Len(xs)) : Cardinality(T) = Min(n * 3, Len(xs))}}

\* the Building states for the current field of the builder; the unwrap panics on None
new_building_state(bps, builder) ==
    LET infos == current_field_infos(builder.blueprint.blueprints,
                                     builder.blueprint.dependency_graph,
                                     builder.constructed_npc)
    IN  IF infos.tag = "Some"
        THEN {[tag |-> "Building",
               bps |-> bps,
               builder |-> builder,
               bd |-> [all_options |-> infos.opts,
                       displayed_options |-> displayed_opts,
                       n |-> infos.n,
                       field_name |-> infos.field]] :
                 displayed_opts \in roll_options(infos.opts, infos.n)}
        ELSE {TabPanic}

\* the block of GenNpc(name) on State::Initiated
gen_npc(st, name) ==
    IF name \in DOMAIN st.bps
    THEN {Outcome(b, "") :
             b \in new_building_state(st.bps, [constructed_npc |-> EmptyMap,
                                               blueprint |-> st.bps[name]])}
    ELSE {Outcome(TabPanic, "")}

\* `set_current_field_val(selections.collect())?` and what follows it
submit_selections(st, values) ==
    LET out == set_current_field_val(st.builder.blueprint.blueprints,
                                     st.builder.blueprint.dependency_graph,
                                     st.builder.constructed_npc, values)
    IN  CASE out.ret.tag = "OkSome" ->
                {Outcome([tag |-> "Finalizing", bps |-> st.bps, npc |-> out.ret.npc], "")}
          [] out.ret.tag = "OkNone" ->
                {Outcome(b, "") :
                    b \in new_building_state(st.bps,
                                             [st.builder EXCEPT !.constructed_npc = out.npc])}
          [] out.ret.tag = "Panic" -> {Outcome(TabPanic, "")}
          [] OTHER -> {Outcome(Placeholder, out.ret.tag)}

\* the block of AttribSelected(s) on State::Building
attrib_selected(st, s) ==
    IF s \notin DOMAIN st.bd.displayed_options
    THEN {Outcome(TabPanic, "")}
    ELSE LET d == [st.bd.displayed_options EXCEPT ![s] = ~@]
         IN  IF Cardinality(Selected(d)) = st.bd.n
             THEN UNION {submit_selections(st, values) : values \in Perms(Selected(d))}
             ELSE {Outcome([st EXCEPT !.bd.displayed_options = d], "")}

\* variant: a message that does not fit the state is ignored
with_state_lenient(st, pat, block) ==
    IF st.tag = pat THEN block ELSE {Outcome(st, "")}

\* with_state!: the block on a state that matches the pattern, State::Error otherwise
with_state(st, pat, block) ==
    IF st.tag = pat THEN block ELSE {Outcome(Error("Unexpected State"), "")}

\* ReInit is `*self = Self::new()`: the file is read and parsed again
inner_update(st, message) ==
    CASE message.kind = "ReInit" ->
            {Outcome(t, "") :
                t \in UNION {GenNpcTab_new(c.blueprints, c.dependency_graph) : c \in ConfigReads}}
      [] message.kind = "GenNpc" -> with_state(st, "Initiated", gen_npc(st, message.arg))
      [] message.kind = "AttribSelected" ->
            with_state(st, "Building", attrib_selected(st, message.arg))

\* update: an Err of inner_update becomes State::Error
update(st, message) ==
    {IF o.err # "" THEN Error(o.err) ELSE o.state : o \in inner_update(st, message)}

TabInit ==
    \E c \in ConfigReads :
        /\ blueprints = c.blueprints
        /\ dependency_graph = c.dependency_graph
        /\ constructed_npc = EmptyMap
        /\ result = [op |-> "GenNpcTab::new", values |-> <<>>, ret |-> [tag |-> "Tab"]]
        /\ sessions = NoSessions
        /\ state \in GenNpcTab_new(c.blueprints, c.dependency_graph)
        /\ combat = NoCombat

\* the process has a tab and has not panicked
TabRunning == state.tag \notin {"NoTab", "Panic"}

\* blueprints and dependency_graph follow what the file was read and parsed to
ReInit ==
    /\ TabRunning
    /\ \E c \in ConfigReads :
          /\ blueprints' = c.blueprints
          /\ dependency_graph' = c.dependency_graph
          /\ state' \in GenNpcTab_new(c.blueprints, c.dependency_graph)
    /\ state' \in update(state, [kind |-> "ReInit", arg |-> ""])
    /\ result' = [op |-> "ReInit", values |-> <<"">>, ret |-> [tag |-> state'.tag]]
    /\ UNCHANGED <<constructed_npc, sessions, combat>>

GenNpc(name) ==
    /\ TabRunning
    /\ state' \in update(state, [kind |-> "GenNpc", arg |-> name])
    /\ result' = [op |-> "GenNpc", values |-> <<name>>, ret |-> [tag |-> state'.tag]]
    /\ UNCHANGED <<blueprints, dependency_graph, constructed_npc, sessions, combat>>

AttribSelected(s) ==
    /\ TabRunning
    /\ state' \in update(state, [kind |-> "AttribSelected", arg |-> s])
    /\ result' = [op |-> "AttribSelected", values |-> <<s>>, ret |-> [tag |-> state'.tag]]
    /\ UNCHANGED <<blueprints, dependency_graph, constructed_npc, sessions, combat>>

\* the option names a message carries: the displayed ones and one that is not displayed
AttribNames(st) ==
    (IF st.tag = "Building" THEN DOMAIN st.bd.displayed_options ELSE {}) \cup {Foreign}

TabNext ==
    \/ ReInit
    \/ \E name \in {NpcType, Foreign} : GenNpc(name)
    \/ \E s \in AttribNames(state) : AttribSelected(s)

SpecTab == TabInit /\ [][TabNext]_vars

(***************************************************************************)
(* The combat tracker (combat-tracker/src/combat_state.rs): the turn       *)
(* counter of a combat and the modifiers of its participants.              *)
(***************************************************************************)
SubRoundTime(nom, denom) == [nom |-> nom, denom |-> denom]

\* TimeVec::new
TimeVec(round, sr_nom, sr_denom) ==
    [round |-> round, sub_round_time |-> SubRoundTime(sr_nom, sr_denom)]

\* PartialOrd of SubRoundTime, a > b: the comparison of nom / denom as floats,
\* which for these small integers is the comparison of the fractions
SubRoundGreater(a, b) == a.nom * b.denom > b.nom * a.denom

None == [tag |-> "None"]

Some(v) == [tag |-> "Some", value |-> v]

Modifier(name, introduced_at, duration) ==
    [name |-> name, introduced_at |-> introduced_at, duration |-> duration]

\* Participant::parse_splits: a participant without modifiers
Participant(name, hp) == [name |-> name, hp |-> hp, modifiers |-> <<>>]

\* the participant lists a combat is started with
ParticipantLists ==
    {<<>>,
     <<Participant("Ann", 1)>>,
     <<Participant("Ann", 1), Participant("Bob", 0)>>}

\* the participants that are entered while the combat goes on
NewParticipants == {Participant("Cid", 0)}

\* the largest u16, the type of hp
U16Max == 65535

\* the durations a modifier is given: none, or a number of rounds
Durations == {None, Some(0), Some(1), Some(2)}

\* a panic ends the process
CombatPanic == [tag |-> "Panic"]

from_participants(participants) ==
    [tag |-> "Combat", participants |-> participants, current_idx |-> 0, current_round |-> 0]

now(cs) == TimeVec(cs.current_round, cs.current_idx, Len(cs.participants))

\* variant: the offset is taken the other way round
remaining_rounds_swapped(modifier, t) ==
    IF modifier.duration.tag = "Some"
    THEN LET start == modifier.introduced_at
             offset == IF SubRoundGreater(start.sub_round_time, t.sub_round_time) THEN -1 ELSE 0
         IN  Some(start.round + modifier.duration.value - t.round + offset + 1)
    ELSE None

\* Modifier::remaining_rounds(&self, now)
remaining_rounds(modifier, t) ==
    IF modifier.duration.tag = "Some"
    THEN LET start == modifier.introduced_at
             offset == IF SubRoundGreater(start.sub_round_time, t.sub_round_time) THEN 0 ELSE -1
         IN  Some(start.round + modifier.duration.value - t.round + offset + 1)
    ELSE None

\* p.modifiers.retain(..) for every participant
retain_modifiers(cs) ==
    [cs EXCEPT !.participants =
        [p \in DOMAIN cs.participants |->
            [cs.participants[p] EXCEPT !.modifiers =
                SelectSeq(@, LAMBDA x :
                    IF remaining_rounds(x, now(cs)).tag = "Some"
                    THEN remaining_rounds(x, now(cs)).value > 0
                    ELSE TRUE)]]]

\* variant: the round ends one turn late, `len()` for `len() - 1`
with_next_turn_late(cs) ==
    IF Len(cs.participants) = 0
    THEN {CombatPanic, retain_modifiers([cs EXCEPT !.current_idx = @ + 1])}
    ELSE IF cs.current_idx = Len(cs.participants)
    THEN {retain_modifiers([cs EXCEPT !.current_round = @ + 1, !.current_idx = 0])}
    ELSE {retain_modifiers([cs EXCEPT !.current_idx = @ + 1])}

\* the states with_next_turn can return; with no participant `len() - 1` overflows:
\* a panic where overflow is checked, the largest usize where it is not
with_next_turn(cs) ==
    IF Len(cs.participants) = 0
    THEN {CombatPanic, retain_modifiers([cs EXCEPT !.current_idx = @ + 1])}
    ELSE IF cs.current_idx = Len(cs.participants) - 1
    THEN {retain_modifiers([cs EXCEPT !.current_round = @ + 1, !.current_idx = 0])}
    ELSE {retain_modifiers([cs EXCEPT !.current_idx = @ + 1])}

\* AddingModifiers::parent_with_modifier: the modifier starts now; indexing
\* the participants beyond their number panics
parent_with_modifier(cs, target_participant, name, duration) ==
    IF target_participant >= Len(cs.participants)
    THEN CombatPanic
    ELSE [cs EXCEPT !.participants[target_participant + 1].modifiers =
             Append(@, Modifier(name, now(cs), duration))]

\* Vec::remove(n) where n is an index of xs
Remove(xs, n) == SubSeq(xs, 1, n) \o SubSeq(xs, n + 2, Len(xs))

\* utils::with_popped_n: the element and the rest; Vec::remove panics beyond the end
with_popped_n(xs, n) ==
    IF n >= Len(xs)
    THEN CombatPanic
    ELSE [tag |-> "Popped", elem |-> xs[n + 1], xs |-> Remove(xs, n)]

\* the state and the participant taken out of it
with_nth_participant_popped(cs, n) ==
    LET popped == with_popped_n(cs.participants, n)
    IN  IF popped.tag = "Panic"
        THEN CombatPanic
        ELSE [tag |-> "Popped",
              cs |-> [cs EXCEPT !.participants = popped.xs],
              res |-> popped.elem]

without_participant(cs, n) ==
    IF n >= Len(cs.participants)
    THEN CombatPanic
    ELSE [cs EXCEPT !.participants = Remove(@, n)]

\* utils::update_nth: f on the n-th element, if there is one; f is handed
\* over as the sequence fxs of its values on the elements of xs
update_nth(xs, n, fxs) ==
    IF n < Len(xs) THEN [xs EXCEPT ![n + 1] = fxs[n + 1]] ELSE xs

\* the participants, each with the hit points hp(p) of its own
WithHp(xs, hp) == [k \in DOMAIN xs |-> [xs[k] EXCEPT !.hp = hp[k]]]

\* the closure of Fighting::new under keys.decrement of participant i
decrement(cs, i) ==
    [cs EXCEPT !.participants =
        update_nth(@, i, WithHp(@, [k \in DOMAIN @ |-> IF @[k].hp = 0 THEN 0 ELSE @[k].hp - 1]))]

\* the closure of Fighting::new under keys.increment of participant i; beyond the
\* largest u16 `hp + 1` panics where overflow is checked and wraps where not
increment(cs, i) ==
    IF i < Len(cs.participants) /\ cs.participants[i + 1].hp = U16Max
    THEN {CombatPanic,
          [cs EXCEPT !.participants = update_nth(@, i, WithHp(@, [k \in DOMAIN @ |-> 0]))]}
    ELSE {[cs EXCEPT !.participants =
              update_nth(@, i, WithHp(@, [k \in DOMAIN @ |-> @[k].hp + 1]))]}

\* Insert::with_new_participant, as far as the combat state goes
with_new_participant(cs, p) == [cs EXCEPT !.participants = Append(@, p)]

\* all modifiers of all participants
RECURSIVE CountModifiers(_)
CountModifiers(participants) ==
    IF participants = <<>> THEN 0
    ELSE Len(Head(participants).modifiers) + CountModifiers(Tail(participants))

CombatInit ==
    \E participants \in ParticipantLists :
        /\ blueprints = BpEmpty
        /\ dependency_graph = from_blueprints(BpEmpty, <<>>, <<>>)
        /\ constructed_npc = EmptyMap
        /\ result = [op |-> "from_participants", values |-> <<>>, ret |-> [tag |-> "CombatState"]]
        /\ sessions = NoSessions
        /\ state = NoTab
        /\ combat = from_participants(participants)

\* a combat is tracked and the process has not panicked
CombatRunning == combat.tag = "Combat"

WithNextTurn ==
    /\ CombatRunning
    /\ combat.current_round < MaxRound
    /\ combat.current_idx < MaxParticipants
    /\ combat' \in with_next_turn(combat)
    /\ result' = [op |-> "with_next_turn", values |-> <<>>, ret |-> [tag |-> combat'.tag]]
    /\ UNCHANGED <<blueprints, dependency_graph, constructed_npc, sessions, state>>

ParentWithModifier(target_participant, duration) ==
    /\ CombatRunning
    /\ CountModifiers(combat.participants) < MaxModifiers
    /\ combat' = parent_with_modifier(combat, target_participant, "mod", duration)
    /\ result' = [op |-> "parent_with_modifier",
                  values |-> <<target_participant>>,
                  ret |-> [tag |-> combat'.tag]]
    /\ UNCHANGED <<blueprints, dependency_graph, constructed_npc, sessions, state>>

WithNthParticipantPopped(n) ==
    /\ CombatRunning
    /\ LET popped == with_nth_participant_popped(combat, n)
       IN  /\ combat' = IF popped.tag = "Panic" THEN CombatPanic ELSE popped.cs
           /\ result' = [op |-> "with_nth_participant_popped",
                         values |-> <<n>>,
                         ret |-> IF popped.tag = "Panic"
                                 THEN [tag |-> "Panic"]
                                 ELSE [tag |-> "Combat", res |-> popped.res]]
    /\ UNCHANGED <<blueprints, dependency_graph, constructed_npc, sessions, state>>

WithoutParticipant(n) ==
    /\ CombatRunning
    /\ combat' = without_participant(combat, n)
    /\ result' = [op |-> "without_participant", values |-> <<n>>, ret |-> [tag |-> combat'.tag]]
    /\ UNCHANGED <<blueprints, dependency_graph, constructed_npc, sessions, state>>

\* Fighting::process on the decrement key of participant i
Decrement(i) ==
    /\ CombatRunning
    /\ i < Len(combat.participants)
    /\ combat' = decrement(combat, i)
    /\ result' = [op |-> "decrement", values |-> <<i>>, ret |-> [tag |-> combat'.tag]]
    /\ UNCHANGED <<blueprints, dependency_graph, constructed_npc, sessions, state>>

\* Fighting::process on the increment key of participant i
Increment(i) ==
    /\ CombatRunning
    /\ i < Len(combat.participants)
    /\ combat.participants[i + 1].hp < MaxHp
    /\ combat' \in increment(combat, i)
    /\ result' = [op |-> "increment", values |-> <<i>>, ret |-> [tag |-> combat'.tag]]
    /\ UNCHANGED <<blueprints, dependency_graph, constructed_npc, sessions, state>>

WithNewParticipant(p) ==
    /\ CombatRunning
    /\ Len(combat.participants) < MaxParticipants
    /\ combat' = with_new_participant(combat, p)
    /\ result' = [op |-> "with_new_participant", values |-> <<p.name>>, ret |-> [tag |-> combat'.tag]]
    /\ UNCHANGED <<blueprints, dependency_graph, constructed_npc, sessions, state>>

CombatNext ==
    \/ WithNextTurn
    \/ \E target_participant \in 0..MaxParticipants : \E duration \in Durations :
          ParentWithModifier(target_participant, duration)
    \/ \E n \in 0..MaxParticipants : WithNthParticipantPopped(n)
    \/ \E n \in 0..MaxParticipants : WithoutParticipant(n)
    \/ \E i \in 0..(MaxParticipants - 1) : Decrement(i)
    \/ \E i \in 0..(MaxParticipants - 1) : Increment(i)
    \/ \E p \in NewParticipants : WithNewParticipant(p)

SpecCombat == CombatInit /\ [][CombatNext]_vars

(***************************************************************************)
(* Vocabulary of the properties, read off the blueprint set itself.        *)
(***************************************************************************)
\* what current_field_infos returns in the current state
Infos == current_field_infos(blueprints, dependency_graph, constructed_npc)

\* the step is a call of set_current_field_val; result'.values is what was submitted
Submitted == result'.op = "set_current_field_val"

Succeeded(r) == r.ret.tag \in {"OkSome", "OkNone"}

Failed(r) == r.ret.tag \in {"WrongN", "InvalidValue", "NPCCompleteError"}

\* the fields the sources of f filter on
DeclaredTargets(f) ==
    {src.filter.target_field : src \in {c \in Range(blueprints[f].sources) : c.filter.kind = "FieldValue"}}

\* f has no filtered source
IsRoot(f) == \A src \in Range(blueprints[f].sources) : src.filter.kind = "None"

\* the sources of f that are unconditional or whose filter the committed values satisfy
SatisfiedSources(f, npc) ==
    {src \in Range(blueprints[f].sources) :
        \/ src.filter.kind = "None"
        \/ /\ src.filter.kind = "FieldValue"
           /\ src.filter.target_field \in DOMAIN npc
           /\ src.filter.target_value \in Range(npc[src.filter.target_field])}

ActiveOptionSet(f, npc) == UNION {Range(src.options) : src \in SatisfiedSources(f, npc)}

RaceOrc == "Race" :> <<"Orc">>

RaceOrcWeaponAxe == ("Race" :> <<"Orc">>) @@ ("Weapon" :> <<"Axe">>)

(***************************************************************************)
(* C1.  End-to-end scenario on the Race/Weapon blueprint set: a fresh      *)
(* builder reports Race as the current field; submitting [Orc] succeeds    *)
(* and returns in-progress; the current field is then Weapon with active   *)
(* options exactly {Axe} and required count 1; submitting [Axe] returns    *)
(* the finished record {Race: [Orc], Weapon: [Axe]}.                       *)
(***************************************************************************)
C1_Fresh ==
    (blueprints = BpRaceWeapon /\ constructed_npc = EmptyMap)
        => (Infos.tag = "Some" /\ Infos.field = "Race")

C1_AfterOrc ==
    (blueprints = BpRaceWeapon /\ constructed_npc = RaceOrc)
        => /\ Infos.tag = "Some"
           /\ Infos.field = "Weapon"
           /\ Range(Infos.opts) = {"Axe"}
           /\ Infos.n = 1

C1_Steps ==
    (blueprints = BpRaceWeapon /\ Submitted)
        => /\ (constructed_npc = EmptyMap /\ result'.values = <<"Orc">>)
                => (result'.ret = [tag |-> "OkNone"] /\ constructed_npc' = RaceOrc)
           /\ (constructed_npc = RaceOrc /\ result'.values = <<"Axe">>)
                => /\ result'.ret = [tag |-> "OkSome", npc |-> RaceOrcWeaponAxe]
                   /\ constructed_npc' = RaceOrcWeaponAxe

\* C1: on the Race/Weapon blueprint set, Race is current first; [Orc] is accepted
\* in-progress; Weapon is then current with options {Axe}, count 1; [Axe] returns
\* the record {Race: [Orc], Weapon: [Axe]}.
C1_EndToEnd == [](C1_Fresh /\ C1_AfterOrc) /\ [][C1_Steps]_vars

C1_Witness ==
    /\ blueprints = BpRaceWeapon
    /\ result.op = "set_current_field_val"
    /\ result.values = <<"Axe">>
    /\ result.ret.tag = "OkSome"
    /\ constructed_npc = RaceOrcWeaponAxe

(***************************************************************************)
(* C2.  Dependency ordering: the field current_field_infos works on is not *)
(* yet a key of the state and is a root or has every declared dependency   *)
(* target among the keys; a successful submit commits exactly that field,  *)
(* so no field is committed before the fields it filters on.               *)
(***************************************************************************)
C2_Current ==
    (Running /\ Len(get_available_unset_fields(dependency_graph, constructed_npc)) > 0)
        => LET f == current_field(dependency_graph, constructed_npc)
           IN  /\ f \in DOMAIN blueprints
               /\ f \notin DOMAIN constructed_npc
               /\ (IsRoot(f) \/ DeclaredTargets(f) \subseteq DOMAIN constructed_npc)
               /\ Infos.tag = "Some" => Infos.field = f

C2_Commit ==
    (Submitted /\ Succeeded(result'))
        => \E f \in DOMAIN blueprints :
              /\ f = Infos.field
              /\ f \notin DOMAIN constructed_npc
              /\ DOMAIN constructed_npc' = DOMAIN constructed_npc \cup {f}
              /\ DeclaredTargets(f) \subseteq DOMAIN constructed_npc

\* C2: the current field is always unset and a root or fully determined, and a
\* successful submit commits that field only after every field it filters on.
C2_DependencyOrdering == []C2_Current /\ [][C2_Commit]_vars

\* a field gated on two fields has been committed
C2_Witness ==
    /\ blueprints = BpDiamond
    /\ result.op = "set_current_field_val"
    /\ Succeeded(result)
    /\ "F" \in DOMAIN constructed_npc

(***************************************************************************)
(* C3.  Active option set: the options reported for the current field are  *)
(* exactly the union of the options of every source that is unconditional  *)
(* or whose target field is committed with a list containing the target    *)
(* value.  With A = {x,y} unconditional and {z} filtered on B = b1: {x,y}  *)
(* after B was resolved to [b2], {x,y,z} after B was resolved to [b1].     *)
(***************************************************************************)
\* C3: the reported options are exactly the union of the options of the
\* unconditional sources and of the sources whose filter the state satisfies.
C3_ActiveOptions ==
    Running =>
        /\ Infos.tag = "Some" => Range(Infos.opts) = ActiveOptionSet(Infos.field, constructed_npc)
        /\ (blueprints = BpFilter /\ constructed_npc = ("B" :> <<"b2">>))
              => (Infos.tag = "Some" /\ Infos.field = "A" /\ Range(Infos.opts) = {"x", "y"})
        /\ (blueprints = BpFilter /\ constructed_npc = ("B" :> <<"b1">>))
              => (Infos.tag = "Some" /\ Infos.field = "A" /\ Range(Infos.opts) = {"x", "y", "z"})

C3_Witness ==
    /\ blueprints = BpFilter
    /\ constructed_npc = ("B" :> <<"b1">>)
    /\ result.op = "current_field_infos"
    /\ result.ret.tag = "Some"
    /\ result.ret.field = "A"
    /\ Range(result.ret.opts) = {"x", "y", "z"}

(***************************************************************************)
(* C4.  A failing submit (WrongN, InvalidValue or NPCCompleteError) leaves *)
(* constructed_npc exactly as it was; constructed_npc changes only in a    *)
(* fully successful submit.                                                *)
(***************************************************************************)
C4_Step ==
    /\ (Submitted /\ Failed(result')) => constructed_npc' = constructed_npc
    /\ constructed_npc' # constructed_npc => (Submitted /\ Succeeded(result'))

\* C4: every failing submit leaves constructed_npc unchanged, and only a
\* successful submit changes it.
C4_FailuresArePure == [][C4_Step]_vars

\* a value was refused while part of the record was already committed
C4_Witness ==
    /\ result.op = "set_current_field_val"
    /\ result.ret.tag = "InvalidValue"
    /\ DOMAIN constructed_npc # {}
    /\ DOMAIN constructed_npc # DOMAIN blueprints

(***************************************************************************)
(* C5.  Count check and its precedence: with a current field, a submit of  *)
(* a number of values other than n_selections fails with                   *)
(* WrongN(number submitted, n_selections), whether or not the values are   *)
(* among the active options.                                               *)
(***************************************************************************)
C5_Step ==
    (Submitted /\ Infos.tag = "Some" /\ Len(result'.values) # Infos.n)
        => result'.ret = [tag |-> "WrongN", got |-> Len(result'.values), expected |-> Infos.n]

\* C5: a submit of the wrong number of values fails with WrongN(got, expected),
\* also when a value is outside the active options.
C5_WrongCountFirst == [][C5_Step]_vars

\* three values, one of them no option at all, for a field that takes two
C5_Witness ==
    /\ blueprints = BpCount
    /\ constructed_npc = EmptyMap
    /\ result.op = "set_current_field_val"
    /\ Len(result.values) = 3
    /\ Contains(result.values, Foreign)
    /\ result.ret = [tag |-> "WrongN", got |-> 3, expected |-> 2]

(***************************************************************************)
(* C6.  Invalid value report: with the right number of values, one of them *)
(* outside the active option set, submit fails with InvalidValue(v,        *)
(* allowed): v is the first submitted value outside the set and allowed is *)
(* the whole active option set of the current field; [q] against {x,y}     *)
(* gives InvalidValue(q, {x,y}).                                           *)
(***************************************************************************)
\* i is the position of the first submitted value that is no active option
FirstOutside(values, f, npc, i) ==
    /\ i \in 1..Len(values)
    /\ values[i] \notin ActiveOptionSet(f, npc)
    /\ \A j \in 1..(i - 1) : values[j] \in ActiveOptionSet(f, npc)

C6_Step ==
    (Submitted /\ Infos.tag = "Some" /\ Len(result'.values) = Infos.n)
        => \A i \in 1..Len(result'.values) :
              FirstOutside(result'.values, Infos.field, constructed_npc, i)
                  => /\ result'.ret.tag = "InvalidValue"
                     /\ result'.ret.value = result'.values[i]
                     /\ Range(result'.ret.allowed) = ActiveOptionSet(Infos.field, constructed_npc)

C6_Example ==
    (blueprints = BpFilter /\ constructed_npc = ("B" :> <<"b2">>)
        /\ Submitted /\ result'.values = <<"q">>)
        => /\ result'.ret.tag = "InvalidValue"
           /\ result'.ret.value = "q"
           /\ Range(result'.ret.allowed) = {"x", "y"}

\* C6: with the right count, the first value outside the active option set is
\* reported as InvalidValue together with the whole active option set.
C6_InvalidValueReport == [][C6_Step /\ C6_Example]_vars

\* two values outside the active options {x,y}, in this order
C6_Witness ==
    /\ blueprints = BpCount
    /\ constructed_npc = ("Skills" :> <<"y", "y">>)
    /\ result.op = "set_current_field_val"
    /\ result.values = <<"q", "z">>
    /\ result.ret.tag = "InvalidValue"
    /\ result.ret.value = "q"

(***************************************************************************)
(* C7.  A value that is an option of some source of the current field, but *)
(* only of sources whose filter the committed values do not satisfy (Bow   *)
(* for Weapon after Race was resolved to [Orc]), is refused: the submit    *)
(* that passes the count check fails with InvalidValue and the allowed set *)
(* reported does not contain the value; no submit carrying it succeeds.    *)
(***************************************************************************)
\* v is an option of the field, of filtered-out sources only
FilteredOut(f, npc, v) ==
    /\ \E src \in Range(blueprints[f].sources) : v \in Range(src.options)
    /\ \A src \in SatisfiedSources(f, npc) : v \notin Range(src.options)

C7_Step ==
    (Submitted /\ Infos.tag = "Some")
        => \A i \in 1..Len(result'.values) :
              FilteredOut(Infos.field, constructed_npc, result'.values[i])
                  => /\ ~Succeeded(result')
                     /\ constructed_npc' = constructed_npc
                     /\ Len(result'.values) = Infos.n
                           => /\ result'.ret.tag = "InvalidValue"
                              /\ ~Contains(result'.ret.allowed, result'.values[i])

\* C7: an option of filtered-out sources only is refused with InvalidValue and is
\* not in the allowed set reported.
C7_FilteredOutRefused == [][C7_Step]_vars

C7_Witness ==
    /\ blueprints = BpRaceWeapon
    /\ constructed_npc = RaceOrc
    /\ result.op = "set_current_field_val"
    /\ result.values = <<"Bow">>
    /\ result.ret.tag = "InvalidValue"
    /\ result.ret.value = "Bow"
    /\ Range(result.ret.allowed) = {"Axe"}

(***************************************************************************)
(* C8.  A successful submit inserts (current field -> submitted values)    *)
(* and returns the finished record if and only if, after the insert, every *)
(* field name of the blueprint set is a key; otherwise it returns          *)
(* in-progress.  A returned record equals the state at that moment.        *)
(***************************************************************************)
C8_Step ==
    (Submitted /\ Succeeded(result'))
        => /\ Infos.tag = "Some"
           /\ constructed_npc' = MapInsert(constructed_npc, Infos.field, result'.values)
           /\ result'.ret.tag = "OkSome" <=> DOMAIN blueprints \subseteq DOMAIN constructed_npc'
           /\ result'.ret.tag = "OkSome" => result'.ret.npc = constructed_npc'
           /\ result'.ret.tag = "OkNone" => result'.ret = [tag |-> "OkNone"]

\* C8: a successful submit inserts the entry and returns the record, equal to the
\* state, exactly when every field name is then a key; else in-progress.
C8_SubmitResult == [][C8_Step]_vars

\* the last but one of four fields was committed: in progress
C8_Witness ==
    /\ blueprints = BpChain
    /\ result.op = "set_current_field_val"
    /\ result.ret.tag = "OkNone"
    /\ Cardinality(DOMAIN constructed_npc) = 3

(***************************************************************************)
(* C9.  Completion closure: the keys of a record returned by submit are    *)
(* exactly the field names of the blueprint set; in every state the keys   *)
(* of constructed_npc are among the field names.                           *)
(***************************************************************************)
\* C9: the keys of a returned record are exactly the field names, and the keys
\* of constructed_npc are always among the field names.
C9_CompletionClosure ==
    /\ DOMAIN constructed_npc \subseteq DOMAIN blueprints
    /\ result.ret.tag = "OkSome" => DOMAIN result.ret.npc = DOMAIN blueprints

C9_Witness ==
    /\ blueprints = BpChain
    /\ result.ret.tag = "OkSome"
    /\ DOMAIN result.ret.npc = {"R1", "R2", "D", "E"}

(***************************************************************************)
(* C10.  Monotonic progress: a successful submit increases the number of   *)
(* keys of constructed_npc by exactly 1, and no step decreases it.         *)
(***************************************************************************)
C10_Step ==
    /\ (Submitted /\ Succeeded(result'))
          => Cardinality(DOMAIN constructed_npc') = Cardinality(DOMAIN constructed_npc) + 1
    /\ Cardinality(DOMAIN constructed_npc') >= Cardinality(DOMAIN constructed_npc)

\* C10: a successful submit adds exactly one key and no step removes a key.
C10_MonotonicProgress == [][C10_Step]_vars

\* a successful submit for a field that takes no value
C10_Witness ==
    /\ blueprints = BpChain
    /\ result.op = "set_current_field_val"
    /\ Succeeded(result)
    /\ result.values = <<>>
    /\ Cardinality(DOMAIN constructed_npc) = 4

(***************************************************************************)
(* C11.  Committed entries are final: once a field name is a key of        *)
(* constructed_npc, no later call removes the key or changes its list.     *)
(***************************************************************************)
C11_Step ==
    \A f \in DOMAIN constructed_npc :
        f \in DOMAIN constructed_npc' /\ constructed_npc'[f] = constructed_npc[f]

\* C11: a committed entry is never removed or changed by a later call.
C11_CommittedFinal == [][C11_Step]_vars

\* a submit has succeeded while another field was already committed
C11_Witness ==
    /\ blueprints = BpFilter
    /\ result.op = "set_current_field_val"
    /\ Succeeded(result)
    /\ constructed_npc = ("B" :> <<"b1">>) @@ ("A" :> <<"z">>)

(***************************************************************************)
(* C12.  Two-state machine: for an accepted blueprint set,                 *)
(* current_field_infos returns None exactly when every field of the        *)
(* blueprint set has an entry in constructed_npc.                          *)
(***************************************************************************)
\* every field name is a key of constructed_npc
AllCommitted == DOMAIN blueprints \subseteq DOMAIN constructed_npc

\* C12: current_field_infos returns None if and only if every field is committed.
C12_TwoStateMachine == Running => (Infos.tag = "None" <=> AllCommitted)

(***************************************************************************)
(* C13.  NPCCompleteError: submit fails with it exactly when               *)
(* current_field_infos returns None, whatever the values; from the submit  *)
(* that returned the record on, every submit fails with it and leaves the  *)
(* record unchanged.                                                       *)
(***************************************************************************)
C13_Step ==
    Submitted =>
        /\ result'.ret.tag = "NPCCompleteError" <=> Infos.tag = "None"
        /\ (result.ret.tag = "OkSome" \/ AllCommitted)
              => /\ result'.ret = [tag |-> "NPCCompleteError"]
                 /\ constructed_npc' = constructed_npc

\* a record is handed out only by the submit that commits the last field, so the
\* states after it are the states where every field is committed
C13_RecordMeansComplete == result.ret.tag = "OkSome" => AllCommitted

\* C13: submit fails with NPCCompleteError exactly when there is no current field,
\* and always does once the record has been returned.
C13_AlreadyComplete == []C13_RecordMeansComplete /\ [][C13_Step]_vars

\* a list of values of any length was refused after the record was complete
C13_Witness ==
    /\ blueprints = BpRaceWeapon
    /\ AllCommitted
    /\ result.op = "set_current_field_val"
    /\ Len(result.values) = 2
    /\ result.ret.tag = "NPCCompleteError"

(***************************************************************************)
(* C14.  Root requirement: from_blueprints fails, with the no-root error,  *)
(* if and only if no field has all its sources unconditional (every field *)
(* has a filtered source, or there is no field at all); when it succeeds,  *)
(* roots is not empty.                                                     *)
(***************************************************************************)
\* C14: construction fails exactly when the blueprint set has no root field.
C14_RootRequirement ==
    /\ dependency_graph.ok <=> \E f \in DOMAIN blueprints : IsRoot(f)
    /\ dependency_graph.ok
          => /\ Len(dependency_graph.roots) > 0
             /\ \A i \in 1..Len(dependency_graph.roots) : IsRoot(dependency_graph.roots[i])
    /\ ~dependency_graph.ok
          => /\ dependency_graph.error = "NoRootFields"
             /\ result = [op |-> "parse", values |-> <<>>, ret |-> [tag |-> "Err"]]
             /\ constructed_npc = EmptyMap

\* two fields, each gated on the other: construction has failed
C14_Witness ==
    /\ blueprints = BpNoRoot
    /\ ~dependency_graph.ok
    /\ \A f \in DOMAIN blueprints : ~IsRoot(f)

(***************************************************************************)
(* C15.  Distinct selections: after every successful submit the committed  *)
(* list of the field holds exactly n_selections pairwise distinct values;  *)
(* a submission that repeats a value is not committed.                     *)
(***************************************************************************)
\* the elements of a list are pairwise distinct
Distinct(s) == \A i, j \in 1..Len(s) : s[i] = s[j] => i = j

\* C15: every committed list holds n_selections pairwise distinct values.
C15_DistinctSelections ==
    \A f \in DOMAIN constructed_npc :
        /\ Len(constructed_npc[f]) = blueprints[f].n_selections
        /\ Distinct(constructed_npc[f])

(***************************************************************************)
(* C16.  Unsatisfiable field: when the current field asks for more values  *)
(* than it has distinct active options, no submit for it succeeds, so the  *)
(* field is never committed and no record is returned.                     *)
(***************************************************************************)
\* the current field asks for more values than it has distinct active options
Unsatisfiable == Infos.tag = "Some" /\ Infos.n > Cardinality(Range(Infos.opts))

C16_Step == (Submitted /\ Unsatisfiable) => (~Succeeded(result') /\ constructed_npc' = constructed_npc)

\* C16: no submit succeeds for a field that asks for more values than it has
\* distinct active options.
C16_Unsatisfiable == [][C16_Step]_vars

(***************************************************************************)
(* C17.  Degenerate count: for a current field with n_selections 0, the    *)
(* empty submission succeeds and commits the empty list, whatever the      *)
(* active options; a submission of k > 0 values fails with WrongN(k, 0).   *)
(***************************************************************************)
C17_Step ==
    (Submitted /\ Infos.tag = "Some" /\ Infos.n = 0)
        => IF result'.values = <<>>
           THEN /\ Succeeded(result')
                /\ constructed_npc' = MapInsert(constructed_npc, Infos.field, <<>>)
           ELSE /\ result'.ret = [tag |-> "WrongN", got |-> Len(result'.values), expected |-> 0]
                /\ constructed_npc' = constructed_npc

\* C17: a field that takes no value accepts the empty list and nothing else.
C17_DegenerateCount == [][C17_Step]_vars

\* the empty list was committed for E while E had the active option z
C17_Witness ==
    /\ blueprints = BpChain
    /\ result.op = "set_current_field_val"
    /\ result.values = <<>>
    /\ Succeeded(result)
    /\ "E" \in DOMAIN constructed_npc
    /\ constructed_npc["E"] = <<>>
    /\ constructed_npc["D"] = <<"x">>

(***************************************************************************)
(* C19.  No panics: on a builder of an accepted blueprint set no call      *)
(* panics.  Every filtered source of the current field has its target      *)
(* field among the keys of constructed_npc, so the lookup of line 116      *)
(* finds it, and the unwrap of line 154 is reached only with a submitted   *)
(* value that is not in opts.                                              *)
(***************************************************************************)
\* C19: no call panics; the targets of the current field's filters are set, and an
\* InvalidValue is reported only for a submitted value outside opts.
C19_NoPanics ==
    /\ result.ret.tag # "Panic"
    /\ Running =>
          /\ Infos.tag # "Panic"
          /\ Len(get_available_unset_fields(dependency_graph, constructed_npc)) > 0
                => LET f == current_field(dependency_graph, constructed_npc)
                   IN  /\ f \in DOMAIN blueprints
                       /\ \A src \in Range(blueprints[f].sources) :
                             src.filter.kind = "FieldValue"
                                 => src.filter.target_field \in DOMAIN constructed_npc
    /\ result.ret.tag = "InvalidValue"
          => /\ Contains(result.values, result.ret.value)
             /\ ~Contains(result.ret.allowed, result.ret.value)

\* the current field F has two filtered sources, both targets are set
C19_Witness ==
    /\ blueprints = BpDiamond
    /\ result.op = "current_field_infos"
    /\ result.ret.tag = "Some"
    /\ result.ret.field = "F"
    /\ {"D", "E"} \subseteq DOMAIN constructed_npc

(***************************************************************************)
(* C20.  Session independence: with two builders created from the same     *)
(* blueprint, under any interleaving of their calls every call changes     *)
(* only the builder it is made on, and what it returns and leaves behind   *)
(* is what the call does on that builder alone; the shared blueprint map   *)
(* and graph are never written.                                            *)
(***************************************************************************)
\* b2 is the builder b after one call made on it alone
AloneStep(b, b2) ==
    \/ b2 = after_current_field_infos(blueprints, dependency_graph, b)
    \/ /\ b2.result.op = "set_current_field_val"
       /\ b2 = after_set_current_field_val(blueprints, dependency_graph, b, b2.result.values)

C20_Step ==
    /\ blueprints' = blueprints
    /\ dependency_graph' = dependency_graph
    /\ \A s \in Sessions :
          sessions'[s] # sessions[s]
              => /\ AloneStep(sessions[s], sessions'[s])
                 /\ \A t \in Sessions \ {s} : sessions'[t] = sessions[t]

\* C20: each builder starts fresh and every step is a call on one builder that
\* leaves the other builder, the blueprint map and the graph as they were.
C20_SessionIndependence ==
    (\A s \in Sessions : sessions[s] = NewBuilder) /\ [][C20_Step]_vars

\* the two sessions have gone different ways
C20_Witness ==
    /\ blueprints = BpRaceWeapon
    /\ sessions["a"].constructed_npc = RaceOrc
    /\ sessions["a"].result.ret.tag = "InvalidValue"
    /\ sessions["b"].constructed_npc = ("Race" :> <<"Elf">>) @@ ("Weapon" :> <<"Bow">>)
    /\ sessions["b"].result.ret.tag = "OkSome"

(***************************************************************************)
(* C21.  Cycle stall: in an accepted blueprint set in which two fields     *)
(* each have a source filtered on the other, neither of the two is ever    *)
(* determined, reported as the current field or committed; no submit       *)
(* returns the finished record; and the cycle is never reported:           *)
(* construction succeeds, no call panics, and a submit fails only with one *)
(* of the three errors of any builder.                                     *)
(***************************************************************************)
\* the fields that filter on a field that filters on them
InCycle(f) ==
    \E g \in DOMAIN blueprints \ {f} : g \in DeclaredTargets(f) /\ f \in DeclaredTargets(g)

\* C21: with two fields filtering on each other the builder stalls before them
\* and reports nothing about it.
C21_CycleStall ==
    (dependency_graph.ok /\ \E f \in DOMAIN blueprints : InCycle(f))
        => /\ \A f \in DOMAIN blueprints :
                InCycle(f)
                    => /\ f \notin Range(get_determined_fields(dependency_graph, constructed_npc))
                       /\ Infos.tag = "Some" => Infos.field # f
                       /\ result.op = "current_field_infos" /\ result.ret.tag = "Some"
                              => result.ret.field # f
                       /\ f \notin DOMAIN constructed_npc
           /\ result.ret.tag # "OkSome"
           /\ result.ret.tag \in {"Builder", "Some", "None", "Bool", "OkNone",
                                  "WrongN", "InvalidValue", "NPCCompleteError"}

\* the root is committed, A and B are left, and the builder has stalled
C21_Witness ==
    /\ blueprints = BpCycle
    /\ constructed_npc = ("R" :> <<"x">>)
    /\ InCycle("A") /\ InCycle("B")
    /\ result.op = "current_field_infos"
    /\ result.ret.tag = "None"

(***************************************************************************)
(* C22.  Graph construction: after a successful from_blueprints, roots     *)
(* lists, once each, exactly the fields all of whose sources are           *)
(* unconditional; the dependency relation holds (A, B) exactly when a      *)
(* source of A filters on B; and the roots and the fields with a           *)
(* dependency edge partition the field names.                              *)
(***************************************************************************)
\* the fields that have a dependency edge
Dependants == {p[1] : p \in dependency_graph.dependencies}

\* C22: roots are the fields without a filtered source, each once; the edges
\* are the (field, filter target) pairs; roots and dependants partition the fields.
C22_GraphConstruction ==
    dependency_graph.ok
        => /\ Range(dependency_graph.roots) = {f \in DOMAIN blueprints : IsRoot(f)}
           /\ Distinct(dependency_graph.roots)
           /\ dependency_graph.dependencies
                 = UNION {{<<f, t>> : t \in DeclaredTargets(f)} : f \in DOMAIN blueprints}
           /\ Range(dependency_graph.roots) \cup Dependants = DOMAIN blueprints
           /\ Range(dependency_graph.roots) \cap Dependants = {}
           /\ Range(dependency_graph.left_keys) = Dependants

\* the graph of the set in which A has an unconditional and a filtered source
C22_Witness ==
    /\ blueprints = BpFilter
    /\ dependency_graph.ok
    /\ dependency_graph.roots = <<"B">>
    /\ dependency_graph.dependencies = {<<"A", "B">>}
    /\ result.op = "new"

(***************************************************************************)
(* C23.  Eligibility depends on presence only: the determined and the      *)
(* available fields are the same for any two records with the same keys,   *)
(* whatever the committed values; and an unset field whose every filter    *)
(* target is committed is available even when no filter matches, its       *)
(* active options then being empty.                                        *)
(***************************************************************************)
\* the value lists a record with other committed values holds
OtherValueLists == {<<>>, <<Foreign>>}

\* the records with the keys of npc and other values
SameKeys(npc) == [DOMAIN npc -> OtherValueLists]

\* C23: records with the same keys have the same determined and available
\* fields, and a field with all its targets committed is available.
C23_PresenceOnly ==
    dependency_graph.ok
        => /\ \A other \in SameKeys(constructed_npc) :
                /\ get_determined_fields(dependency_graph, other)
                      = get_determined_fields(dependency_graph, constructed_npc)
                /\ get_available_unset_fields(dependency_graph, other)
                      = get_available_unset_fields(dependency_graph, constructed_npc)
           /\ \A f \in DOMAIN blueprints :
                (~IsRoot(f) /\ DeclaredTargets(f) \subseteq DOMAIN constructed_npc)
                    => /\ f \in Range(get_determined_fields(dependency_graph, constructed_npc))
                       /\ f \notin DOMAIN constructed_npc
                              => f \in Range(get_available_unset_fields(dependency_graph,
                                                                        constructed_npc))

\* D is available although its only filter, R = x, does not match R = y
C23_Witness ==
    /\ blueprints = BpDiamond
    /\ constructed_npc = ("R" :> <<"y">>)
    /\ result.op = "set_current_field_val"
    /\ "D" \in Range(get_available_unset_fields(dependency_graph, constructed_npc))
    /\ ActiveOptionSet("D", constructed_npc) = {}
    /\ Infos.tag = "Some" /\ Infos.field = "D" /\ Infos.opts = <<>>

(***************************************************************************)
(* C24.  get_depending_fields(field) returns exactly the fields that have  *)
(* a source filtered on `field` (the fields that depend on it, not the     *)
(* fields it depends on), and nothing when no field depends on it.         *)
(***************************************************************************)
\* C24: the fields returned for a name are the fields with a source filtered on it.
C24_DependingFields ==
    result.op = "get_depending_fields"
        => result.ret.fields
              = {a \in DOMAIN blueprints : result.values[1] \in DeclaredTargets(a)}

\* D and E filter on R; R filters on nothing
C24_Witness ==
    /\ blueprints = BpDiamond
    /\ result.op = "get_depending_fields"
    /\ result.values = <<"R">>
    /\ result.ret.fields = {"D", "E"}
    /\ DeclaredTargets("R") = {}

(***************************************************************************)
(* C26.  The blueprint is read-only for a session: no builder call changes *)
(* the blueprint map, the roots or the dependency relation;                *)
(* current_field_infos and npc_completed change nothing at all; and        *)
(* current_field_infos, called any number of times between two submits,    *)
(* returns the same field, options and count each time.                    *)
(***************************************************************************)
C26_Step ==
    /\ blueprints' = blueprints
    /\ dependency_graph' = dependency_graph
    /\ result'.op \in {"current_field_infos", "npc_completed"}
          => constructed_npc' = constructed_npc
    /\ (result.op = "current_field_infos" /\ result'.op = "current_field_infos")
          => result'.ret = result.ret

\* what current_field_infos returned is what it returns again, until a submit
C26_SameAnswer ==
    (result.op = "current_field_infos" /\ Running) => result.ret = Infos

\* C26: blueprints and graph never change, the two queries change nothing, and
\* current_field_infos keeps returning the same answer between submits.
C26_ReadOnly == []C26_SameAnswer /\ [][C26_Step]_vars

\* current_field_infos has been asked after Race was committed
C26_Witness ==
    /\ blueprints = BpRaceWeapon
    /\ constructed_npc = RaceOrc
    /\ result.op = "current_field_infos"
    /\ result.ret = [tag |-> "Some", field |-> "Weapon", opts |-> <<"Axe">>, n |-> 1]

(***************************************************************************)
(* C27.  Progress for well-formed blueprints: when the dependency relation *)
(* is acyclic and every filter target is a field of the blueprint set,     *)
(* then in every reachable state with an unset field current_field_infos   *)
(* returns a field.                                                        *)
(***************************************************************************)
\* the fields reached from f along at most k dependency edges
RECURSIVE TargetsWithin(_, _)
TargetsWithin(f, k) ==
    IF k = 0 THEN {}
    ELSE DeclaredTargets(f)
         \cup UNION {TargetsWithin(g, k - 1) : g \in DeclaredTargets(f) \cap DOMAIN blueprints}

Acyclic == \A f \in DOMAIN blueprints : f \notin TargetsWithin(f, Cardinality(DOMAIN blueprints))

TargetsDeclared == \A f \in DOMAIN blueprints : DeclaredTargets(f) \subseteq DOMAIN blueprints

\* C27: a well-formed blueprint set with an unset field always has a current field.
C27_Progress ==
    (Running /\ Acyclic /\ TargetsDeclared /\ ~AllCommitted)
        => /\ Infos.tag = "Some"
           /\ result.op = "current_field_infos" => result.ret.tag = "Some"

\* the last field of the diamond is reported once the three before it are committed
C27_Witness ==
    /\ blueprints = BpDiamond
    /\ Acyclic /\ TargetsDeclared
    /\ DOMAIN constructed_npc = {"R", "D", "E"}
    /\ result.op = "current_field_infos"
    /\ result.ret.tag = "Some"
    /\ result.ret.field = "F"

(***************************************************************************)
(* C28.  In-progress implies a next field: for every accepted blueprint    *)
(* set, after a submit that succeeds and returns no record, the following  *)
(* current_field_infos returns a field and not None, so that the unwrap    *)
(* the tab makes on it does not fail.                                      *)
(***************************************************************************)
C28_Step ==
    (Submitted /\ result'.ret.tag = "OkNone")
        => current_field_infos(blueprints', dependency_graph', constructed_npc').tag = "Some"

\* C28: a submit that returns in-progress leaves a builder with a current field.
C28_InProgressHasNext == [][C28_Step]_vars

(***************************************************************************)
(* C29.  Fresh builder has a current field: for every accepted blueprint   *)
(* set, current_field_infos on a newly created builder, whose record is    *)
(* empty, returns a root field and never None.                             *)
(***************************************************************************)
\* C29: on the empty record current_field_infos returns the first root.
C29_FreshHasField ==
    (Running /\ constructed_npc = EmptyMap)
        => /\ Infos.tag = "Some"
           /\ IsRoot(Infos.field)
           /\ Infos.field = dependency_graph.roots[1]
           /\ result.op = "current_field_infos"
                 => result.ret.tag = "Some" /\ IsRoot(result.ret.field)

\* the fresh builder of the chain reports R2, the root its graph lists first
C29_Witness ==
    /\ blueprints = BpChain
    /\ constructed_npc = EmptyMap
    /\ dependency_graph.roots = <<"R2", "R1">>
    /\ result.op = "current_field_infos"
    /\ result.ret.tag = "Some"
    /\ result.ret.field = "R2"

(***************************************************************************)
(* C30.  Roots first: the current field is the first unset element of the  *)
(* roots followed by the determined fields, so while a root is unset the   *)
(* current field is a root, and no dependent field is committed before     *)
(* every root is.                                                          *)
(***************************************************************************)
UnsetRoots == {f \in DOMAIN blueprints : IsRoot(f) /\ f \notin DOMAIN constructed_npc}

\* the first element of s that is not a key of the record
FirstUnset(s) ==
    s[CHOOSE i \in 1..Len(s) :
          /\ s[i] \notin DOMAIN constructed_npc
          /\ \A j \in 1..(i - 1) : s[j] \in DOMAIN constructed_npc]

C30_Current ==
    (Running /\ Infos.tag = "Some")
        => /\ Infos.field
                = FirstUnset(dependency_graph.roots
                             \o get_determined_fields(dependency_graph, constructed_npc))
           /\ UnsetRoots # {} => IsRoot(Infos.field)
           /\ (UnsetRoots # {} /\ result.op = "current_field_infos")
                 => IsRoot(result.ret.field)

C30_Committed ==
    Running => \A f \in DOMAIN constructed_npc : ~IsRoot(f) => UnsetRoots = {}

C30_Step ==
    (Submitted /\ Succeeded(result') /\ UnsetRoots # {})
        => \E r \in UnsetRoots : constructed_npc' = MapInsert(constructed_npc, r, result'.values)

\* C30: the current field is the first unset root while there is one, and a
\* dependent field is committed only after all roots.
C30_RootsFirst == [](C30_Current /\ C30_Committed) /\ [][C30_Step]_vars

\* S is determined by P, and the builder still reports the root Q
C30_Witness ==
    /\ blueprints = BpSide
    /\ constructed_npc = ("P" :> <<"x">>)
    /\ "S" \in Range(get_determined_fields(dependency_graph, constructed_npc))
    /\ result.op = "current_field_infos"
    /\ result.ret.tag = "Some"
    /\ result.ret.field = "Q"

(***************************************************************************)
(* C31.  Committed values stay justified: in every reachable state every   *)
(* value committed for a field is an option of a source of that field      *)
(* that is unconditional or whose filter the committed values satisfy;     *)
(* the finished record in particular.                                      *)
(***************************************************************************)
Justified(npc) ==
    \A f \in DOMAIN npc : \A v \in Range(npc[f]) : v \in ActiveOptionSet(f, npc)

\* C31: every committed value is an active option of its field under the record.
C31_Justified ==
    /\ Justified(constructed_npc)
    /\ result.ret.tag = "OkSome" => Justified(result.ret.npc)

\* the finished record of the diamond, F = [y] being justified by E = [x]
C31_Witness ==
    /\ blueprints = BpDiamond
    /\ result.ret.tag = "OkSome"
    /\ result.ret.npc["E"] = <<"x">>
    /\ result.ret.npc["F"] = <<"y">>

(***************************************************************************)
(* C32.  Record returned once: over a blueprint set with N fields the      *)
(* finished record is returned by the N-th successful submit and by no     *)
(* other call: not by an earlier successful submit, and not again by a     *)
(* later submit.                                                           *)
(***************************************************************************)
NFields == Cardinality(DOMAIN blueprints)

\* the successful submits made so far: each one added one key
SuccessfulSubmits(npc) == Cardinality(DOMAIN npc)

C32_Step ==
    /\ result'.ret.tag = "OkSome"
          <=> /\ Submitted
              /\ Succeeded(result')
              /\ SuccessfulSubmits(constructed_npc) = NFields - 1
              /\ SuccessfulSubmits(constructed_npc') = NFields
    /\ (Submitted /\ SuccessfulSubmits(constructed_npc) = NFields) => ~Succeeded(result')

\* C32: a call returns the record exactly when it is the N-th successful submit.
C32_RecordOnce == [][C32_Step]_vars

\* a submit made after the record of the four-field chain was returned
C32_Witness ==
    /\ blueprints = BpChain
    /\ SuccessfulSubmits(constructed_npc) = 4
    /\ result.op = "set_current_field_val"
    /\ result.ret.tag = "NPCCompleteError"

(***************************************************************************)
(* C33.  Eventual completion: over a blueprint set with an acyclic         *)
(* dependency relation and declared filter targets, a session in which     *)
(* every current field has an active option or takes no value, and in      *)
(* which the caller eventually submits an accepted selection for each      *)
(* current field, eventually returns the finished record.                  *)
(***************************************************************************)
CurrentFieldSatisfiable ==
    (Running /\ Infos.tag = "Some") => (Infos.opts # <<>> \/ Infos.n = 0)

\* C33: a fair session over a well-formed, satisfiable blueprint set ends with the record.
C33_EventualCompletion ==
    (dependency_graph.ok /\ Acyclic /\ TargetsDeclared /\ []CurrentFieldSatisfiable)
        => <>(result.ret.tag = "OkSome")

\* the record of the chain, whose last field takes no value
C33_Witness ==
    /\ blueprints = BpChain
    /\ Acyclic /\ TargetsDeclared
    /\ result.ret.tag = "OkSome"
    /\ result.ret.npc["E"] = <<>>

(***************************************************************************)
(* C34.  NPC tab submissions are always accepted: in the Building state    *)
(* the displayed options are among the builder's active options for the    *)
(* current field and the tab submits only when as many options are         *)
(* selected as the field takes; so an AttribSelected message that names a  *)
(* displayed option never makes the builder return an error and never      *)
(* puts the tab into Error: the tab moves to Finalizing with the record    *)
(* when the submit returns one, and to a Building state for the next       *)
(* current field, nothing selected, otherwise.                             *)
(***************************************************************************)
\* what the builder of the tab reports as its current field
TabInfos(st) ==
    current_field_infos(st.builder.blueprint.blueprints,
                        st.builder.blueprint.dependency_graph,
                        st.builder.constructed_npc)

C34_Displayed ==
    state.tag = "Building"
        => /\ TabInfos(state).tag = "Some"
           /\ DOMAIN state.bd.displayed_options \subseteq Range(TabInfos(state).opts)
           /\ state.bd.n = TabInfos(state).n
           /\ state.bd.field_name = TabInfos(state).field

\* the step handles AttribSelected(s) in Building, s being displayed
DisplayedSelected ==
    /\ result'.op = "AttribSelected"
    /\ state.tag = "Building"
    /\ result'.values[1] \in DOMAIN state.bd.displayed_options

\* the displayed options that are selected once s is toggled
SelectedAfter(st, s) == Selected([st.bd.displayed_options EXCEPT ![s] = ~@])

C34_Step ==
    DisplayedSelected
        => IF Cardinality(SelectedAfter(state, result'.values[1])) = state.bd.n
           THEN     \/ /\ state'.tag = "Finalizing"
                       /\ DOMAIN state'.npc = DOMAIN state.builder.blueprint.blueprints
                       /\ Range(state'.npc[state.bd.field_name])
                             = SelectedAfter(state, result'.values[1])
                    \/ /\ state'.tag = "Building"
                       /\ DOMAIN state'.builder.constructed_npc
                             = DOMAIN state.builder.constructed_npc \cup {state.bd.field_name}
                       /\ Range(state'.builder.constructed_npc[state.bd.field_name])
                             = SelectedAfter(state, result'.values[1])
                       /\ state'.bd.field_name # state.bd.field_name
                       /\ Selected(state'.bd.displayed_options) = {}
           ELSE /\ state'.tag = "Building"
                /\ state'.builder = state.builder
                /\ Selected(state'.bd.displayed_options)
                      = SelectedAfter(state, result'.values[1])

\* C34: a displayed option that is selected is never refused: the tab stays in
\* Building, moves on to the next field, or finalizes with the record.
C34_TabAccepted == [][C34_Step /\ C34_Displayed']_vars

(***************************************************************************)
(* C35.  NPC tab message in the wrong state: GenNpc in a state other than  *)
(* Initiated, or AttribSelected in a state other than Building, puts the   *)
(* tab into the Error state, the blueprints and the builder of the         *)
(* previous state being dropped; and after an update that returns          *)
(* normally from a matching state the tab does not hold the placeholder    *)
(* "Switching States".                                                     *)
(***************************************************************************)
\* State::Error carries a message and nothing else
IsError(st) == st.tag = "Error" /\ DOMAIN st = {"tag", "msg"}

C35_Step ==
    /\ (result'.op = "GenNpc" /\ state.tag # "Initiated") => IsError(state')
    /\ (result'.op = "AttribSelected" /\ state.tag # "Building") => IsError(state')
    /\ \/ result'.op = "GenNpc" /\ state.tag = "Initiated"
       \/ result'.op = "AttribSelected" /\ state.tag = "Building"
       => state' # Placeholder

\* C35: a message that does not fit the state leaves the tab in Error, and a
\* message that fits never leaves the placeholder behind.
C35_WrongState == [][C35_Step]_vars

\* GenNpc arrived while a record was being built
C35_Witness ==
    /\ result.op = "GenNpc"
    /\ result.values = <<NpcType>>
    /\ state = Error("Unexpected State")

(***************************************************************************)
(* The combat tracker.                                                     *)
(***************************************************************************)
\* a with_next_turn call on a combat with participants is this step
TurnTaken ==
    /\ combat.tag = "Combat"
    /\ Len(combat.participants) > 0
    /\ result'.op = "with_next_turn"
    /\ combat' # combat

\* the turn is one of the participants', as it is from from_participants on
\* while with_next_turn is all that is called
TurnWithin(cs) == cs.tag = "Combat" /\ cs.current_idx < Len(cs.participants)

\* the participants without their modifiers, in order
Lineup(cs) == [p \in DOMAIN cs.participants |->
                  [name |-> cs.participants[p].name, hp |-> cs.participants[p].hp]]

\* the time t lies before turn index i of round r
Before(t, r, i) ==
    \/ t.round < r
    \/ t.round = r /\ t.sub_round_time.nom < i

\* the modifiers of participant p of cs
ModifiersOf(cs, p) == Range(cs.participants[p].modifiers)

\* from_participants of a non-empty list starts within the list
C36_Start ==
    (result.op = "from_participants" /\ Len(combat.participants) > 0)
        => TurnWithin(combat) /\ combat.current_idx = 0 /\ combat.current_round = 0

C36_Step ==
    TurnTaken /\ TurnWithin(combat) =>
        /\ combat'.tag = "Combat"
        /\ combat'.current_idx < Len(combat'.participants)
        /\ Lineup(combat') = Lineup(combat)
        /\ IF combat.current_idx = Len(combat.participants) - 1
           THEN /\ combat'.current_idx = 0
                /\ combat'.current_round = combat.current_round + 1
           ELSE /\ combat'.current_idx = combat.current_idx + 1
                /\ combat'.current_round = combat.current_round

\* C36: on a combat started by from_participants with a non-empty list every
\* with_next_turn call leaves current_idx below the number of participants; it
\* raises current_idx by one and keeps current_round, or, exactly when
\* current_idx was the last index, sets current_idx to 0 and raises
\* current_round by one; the participants keep their number and order.
C36_TurnCycling == []C36_Start /\ [][C36_Step]_vars

\* the third participant of three has had its turn for the second time
C36_Witness ==
    /\ combat.tag = "Combat"
    /\ result.op = "with_next_turn"
    /\ Len(combat.participants) = 3
    /\ combat.current_round = 2
    /\ combat.current_idx = 0

\* the modifier was introduced among as many participants as cs has: the turn
\* indices of its time and of the time of cs count the same list
SameList(m, cs) == m.introduced_at.sub_round_time.denom = Len(cs.participants)

C37_Step ==
    TurnTaken /\ combat'.tag = "Combat" =>
        \A p \in DOMAIN combat.participants :
            /\ ModifiersOf(combat', p) \subseteq ModifiersOf(combat, p)
            /\ \A m \in ModifiersOf(combat, p) :
                  /\ m.duration.tag = "None" => m \in ModifiersOf(combat', p)
                  /\ ( /\ m.duration.tag = "Some"
                       /\ m.duration.value >= 1
                       /\ SameList(m, combat) ) =>
                        (m \in ModifiersOf(combat', p) <=>
                            Before(now(combat'),
                                   m.introduced_at.round + m.duration.value,
                                   m.introduced_at.sub_round_time.nom))

\* C37: while the participants stay the same, with_next_turn keeps a modifier
\* of duration d >= 1 introduced at round r, turn index i, whenever the time it
\* reaches lies before (r + d, i), and removes it when it reaches (r + d, i);
\* it never removes a modifier that has no duration.
C37_ModifierExpiry == [][C37_Step]_vars

\* a modifier of two rounds put on at (0, 1) is still there at (2, 0), the
\* last turn before it runs out
C37_Witness ==
    /\ combat.tag = "Combat"
    /\ result.op = "with_next_turn"
    /\ Len(combat.participants) = 2
    /\ combat.current_round = 2
    /\ combat.current_idx = 0
    /\ \E p \in DOMAIN combat.participants :
          Modifier("mod", TimeVec(0, 1, 2), Some(2)) \in ModifiersOf(combat, p)

====
